---- MODULE Spec2Model ----
(***************************************************************************)
(* A model of src/hetionet_client.py: the HetioNetDB class, which keeps a  *)
(* typed property graph (Neo4j) and a derived per-disease document cache   *)
(* (MongoDB), and answers two queries over them.                           *)
(*                                                                         *)
(* Representation.                                                         *)
(*  - A Python string that the code takes apart (a metaedge code, a        *)
(*    relationship type) is a sequence of one-character strings.  Ids,     *)
(*    names and node labels are only compared, and are TLA+ strings.       *)
(*  - The graph is `nodes`, the sequence of node records in creation       *)
(*    order (a node's identity is its index, as Neo4j's is its internal    *)
(*    id, not its `id` property), and `edges`, a bag of relationship       *)
(*    records between node indices (CREATE keeps raw duplicates).          *)
(*  - A list built by Cypher's collect(DISTINCT ...) holds each value      *)
(*    once and in an order Cypher leaves unspecified: it is a set.         *)
(*  - The class is single-threaded; calls overlap only between processes  *)
(*    that share the two stores.  One writer runs at a time (a load or a   *)
(*    rebuild), and the queries run between any two steps of it.           *)
(***************************************************************************)
EXTENDS Integers, Sequences, FiniteSets, Bags, TLC

VARIABLES
  nodes,      \* Neo4j: sequence of [id, name, kind]
  edges,      \* Neo4j: bag of [src, dst, type] over node indices
  cache,      \* MongoDB diseases collection: _id -> document
  pc,         \* build_mongo_cache: "idle", "fetch" or "store"
  pending,    \* build_mongo_cache: records of the disease listing not yet processed
  info,       \* build_mongo_cache: the document computed and not yet stored
  op,         \* the call that produced `res`
  res,        \* what the last call returned (or reported)
  cacheAtStart, \* history: the cache when the running rebuild started
  computed,   \* history: the documents the running rebuild has computed
  fresh,      \* history: no load since the last rebuild started
  code,       \* _parse_metaedge: the argument
  out         \* _parse_metaedge: the returned relationship type

vars == <<nodes, edges, cache, pc, pending, info, op, res,
          cacheAtStart, computed, fresh, code, out>>

graphVars == <<nodes, edges, cache, pc, pending, info, op, res,
               cacheAtStart, computed, fresh>>

canonVars == <<code, out>>

----------------------------------------------------------------------------
(* Bounds *)

\* most nodes the store holds
MaxNodes == 8

\* most relationships the store holds
MaxEdges == 8

\* most direction markers added to a metaedge code given to _parse_metaedge
MaxMarkers == 1

\* largest elapsed time, in ms, a query reports
MaxElapsed == 1

----------------------------------------------------------------------------
(* Strings that the code takes apart *)

Range(s) == {s[i] : i \in DOMAIN s}

LowerCase == <<"a","b","c","d","e","f","g","h","i","j","k","l","m",
               "n","o","p","q","r","s","t","u","v","w","x","y","z">>

UpperCase == <<"A","B","C","D","E","F","G","H","I","J","K","L","M",
               "N","O","P","Q","R","S","T","U","V","W","X","Y","Z">>

\* str.upper() on one character
UpperChar(c) ==
  IF c \in Range(LowerCase)
    THEN UpperCase[CHOOSE i \in DOMAIN LowerCase : LowerCase[i] = c]
    ELSE c

\* str.upper()
Upper(s) == [i \in DOMAIN s |-> UpperChar(s[i])]

\* str.replace(old, '') for a one-character old
Remove(s, old) == SelectSeq(s, LAMBDA c : c # old)

\* str.replace(old, new) for one-character old and new
Replace(s, old, new) == [i \in DOMAIN s |-> IF s[i] = old THEN new ELSE s[i]]

INTERACTS     == <<"I","N","T","E","R","A","C","T","S">>
REGULATES     == <<"R","E","G","U","L","A","T","E","S">>
COVARIES      == <<"C","O","V","A","R","I","E","S">>
TREATS        == <<"T","R","E","A","T","S">>
PALLIATES     == <<"P","A","L","L","I","A","T","E","S">>
UPREGULATES   == <<"U","P","R","E","G","U","L","A","T","E","S">>
DOWNREGULATES == <<"D","O","W","N","R","E","G","U","L","A","T","E","S">>
BINDS         == <<"B","I","N","D","S">>
ASSOCIATES    == <<"A","S","S","O","C","I","A","T","E","S">>
LOCALIZES_TO  == <<"L","O","C","A","L","I","Z","E","S","_","T","O">>
EXPRESSES     == <<"E","X","P","R","E","S","S","E","S">>
RESEMBLES     == <<"R","E","S","E","M","B","L","E","S">>

\* the dict `mapping` of _parse_metaedge
mapping ==
  (<<"G","i","G">> :> INTERACTS) @@
  (<<"G","r","G">> :> REGULATES) @@
  (<<"G","c","G">> :> COVARIES) @@
  (<<"C","t","D">> :> TREATS) @@
  (<<"C","p","D">> :> PALLIATES) @@
  (<<"C","u","G">> :> UPREGULATES) @@
  (<<"C","d","G">> :> DOWNREGULATES) @@
  (<<"C","b","G">> :> BINDS) @@
  (<<"D","a","G">> :> ASSOCIATES) @@
  (<<"D","u","G">> :> UPREGULATES) @@
  (<<"D","d","G">> :> DOWNREGULATES) @@
  (<<"D","l","A">> :> LOCALIZES_TO) @@
  (<<"A","u","G">> :> UPREGULATES) @@
  (<<"A","d","G">> :> DOWNREGULATES) @@
  (<<"A","e","G">> :> EXPRESSES) @@
  (<<"C","R","C">> :> RESEMBLES) @@
  (<<"D","R","D">> :> RESEMBLES) @@
  (<<"G","R","G">> :> REGULATES)

\* a variant that strips only '>'
clean_metaedge_gt_only(metaedge) == Remove(metaedge, ">")

\* metaedge.replace('>', '').replace('<', '')
clean_metaedge(metaedge) == Remove(Remove(metaedge, ">"), "<")

\* mapping.get(clean, clean.upper().replace('>', '_').replace('<', '_'))
_parse_metaedge(metaedge) ==
  LET stripped == clean_metaedge(metaedge)
  IN IF stripped \in DOMAIN mapping
       THEN mapping[stripped]
       ELSE Replace(Replace(Upper(stripped), ">", "_"), "<", "_")

----------------------------------------------------------------------------
(* Input files *)

Row(i, n, k) == [id |-> i, name |-> n, kind |-> k]

\* a nodes file: two genes that share a name, two diseases, a compound and
\* an anatomy, the kinds interleaved
nodes_tsv ==
  << Row("G1", "GeneA", "Gene"),
     Row("D1", "Flu", "Disease"),
     Row("G2", "GeneA", "Gene"),
     Row("C1", "DrugA", "Compound"),
     Row("A1", "Lung", "Anatomy"),
     Row("D2", "Cold", "Disease") >>

\* a nodes file that holds a record of nodes_tsv again, and an id of
\* nodes_tsv under another name
more_nodes_tsv ==
  << Row("C1", "DrugA", "Compound"),
     Row("D1", "Influenza", "Disease") >>

NodeFiles == {nodes_tsv, more_nodes_tsv}

Pair(s, t, m) == [source |-> s, target |-> t, metaedge |-> m]

\* what is known of D1: C1 treats it, G1 is associated with it; the last
\* pair names an id no nodes file holds
known_tsv ==
  << Pair("C1", "D1", <<"C","t","D">>),
     Pair("D1", "G1", <<"D","a","G">>),
     Pair("C1", "X9", <<"C","t","D">>) >>

\* D1 localizes to A1, which down-regulates G1 and G2
anatomy_tsv ==
  << Pair("D1", "A1", <<"D","l","A">>),
     Pair("A1", "G1", <<"A","d","G">>),
     Pair("A1", "G2", <<"A","d","G">>) >>

\* C1 up-regulates G1 and G2; the last pair has a code with a direction
\* marker and a source no nodes file holds
compound_tsv ==
  << Pair("C1", "G1", <<"C","u","G">>),
     Pair("C1", "G2", <<"C","u","G">>),
     Pair("X9", "G1", <<"G","r",">","G">>) >>

EdgeFiles == {known_tsv, anatomy_tsv, compound_tsv}

\* the disease ids the queries are called with
QueryIds == {"D1", "D2"}

----------------------------------------------------------------------------
(* load_nodes *)

RECURSIVE Dedup(_)
\* the keys of a Python dict filled in the order of `s`
Dedup(s) ==
  IF s = << >> THEN << >>
  ELSE LET rest == Dedup(SelectSeq(Tail(s), LAMBDA x : x # Head(s)))
       IN <<Head(s)>> \o rest

\* nodes_by_kind: the kinds in order of first appearance, each with its rows
nodes_by_kind(file) ==
  LET kinds == Dedup([i \in DOMAIN file |-> file[i].kind])
  IN [k \in DOMAIN kinds |->
        [kind |-> kinds[k],
         nodes |-> SelectSeq(file, LAMBDA r : r.kind = kinds[k])]]

RECURSIVE Flatten(_)
Flatten(groups) ==
  IF groups = << >> THEN << >>
  ELSE Head(groups).nodes \o Flatten(Tail(groups))

\* UNWIND $nodes AS node CREATE (n:kind {id: node.id, name: node.name}),
\* once per kind
create_nodes(store, file) == store \o Flatten(nodes_by_kind(file))

----------------------------------------------------------------------------
(* load_edges *)

\* MATCH (n {id: $id}): every node, of any label, whose id property is $id
match_id(store, node_id) == {i \in DOMAIN store : store[i].id = node_id}

\* edges_by_type: the raw metaedge codes in order of first appearance, each
\* with its (source, target) pairs
edges_by_type(file) ==
  LET codes == Dedup([i \in DOMAIN file |-> file[i].metaedge])
  IN [k \in DOMAIN codes |->
        [metaedge |-> codes[k],
         edges |-> SelectSeq(file, LAMBDA r : r.metaedge = codes[k])]]

Rel(s, t, ty) == [src |-> s, dst |-> t, type |-> ty]

\* MATCH (source {id: edge.source}) MATCH (target {id: edge.target})
\* CREATE (source)-[:rel_type]->(target), for one element of $edges
create_for_pair(store, edge, rel_type) ==
  {Rel(s, t, rel_type) : s \in match_id(store, edge.source),
                         t \in match_id(store, edge.target)}

RECURSIVE create_for_group(_, _, _)
\* the relationships one session.run of load_edges creates: a bag
create_for_group(store, pairs, rel_type) ==
  IF pairs = << >> THEN EmptyBag
  ELSE SetToBag(create_for_pair(store, Head(pairs), rel_type))
         (+) create_for_group(store, Tail(pairs), rel_type)

RECURSIVE create_edges(_, _)
\* the relationships a load_edges call creates, group after group
create_edges(store, groups) ==
  IF groups = << >> THEN EmptyBag
  ELSE create_for_group(store, Head(groups).edges,
                        _parse_metaedge(Head(groups).metaedge))
         (+) create_edges(store, Tail(groups))

\* what load_edges prints for a group (rel_type, submitted = len(edges)),
\* and with it what the store did for each pair of the group
group_report(store, g) ==
  LET rel_type == _parse_metaedge(g.metaedge)
  IN [rel_type |-> rel_type,
      submitted |-> Len(g.edges),
      created |-> BagCardinality(create_for_group(store, g.edges, rel_type)),
      pairs |-> [i \in DOMAIN g.edges |->
                   [source |-> g.edges[i].source,
                    target |-> g.edges[i].target,
                    created |-> Cardinality(
                        create_for_pair(store, g.edges[i], rel_type))]]]

----------------------------------------------------------------------------
(* The Cypher of Query 1, shared by _get_disease_info_from_neo4j and the
   direct branch of query1_disease_info *)

NullStr == "<null>"
NullType == << >>
NoMatch == [node |-> 0, type |-> NullType]

E == BagToSet(edges)

\* the value of n.<prop> for a node variable bound by an OPTIONAL MATCH
Prop(n, prop) ==
  IF n = 0 THEN NullStr
  ELSE IF prop = "id" THEN nodes[n].id ELSE nodes[n].name

\* OPTIONAL MATCH: the matches, or one row of nulls when there is none
Optional(matches) == IF matches = {} THEN {NoMatch} ELSE matches

\* MATCH (d:Disease {id: $diseaseId})
match_disease(disease_id) ==
  {d \in DOMAIN nodes : nodes[d].kind = "Disease" /\ nodes[d].id = disease_id}

\* (c:Compound)-[r:TREATS|PALLIATES]->(d)
match_drugs(d) ==
  {[node |-> e.src, type |-> e.type] :
     e \in {x \in E : /\ x.dst = d
                     /\ x.type \in {TREATS, PALLIATES}
                     /\ nodes[x.src].kind = "Compound"}}

\* (d)-[gr:ASSOCIATES|UPREGULATES|DOWNREGULATES]->(g:Gene)
match_genes(d) ==
  {[node |-> e.dst, type |-> e.type] :
     e \in {x \in E : /\ x.src = d
                     /\ x.type \in {ASSOCIATES, UPREGULATES, DOWNREGULATES}
                     /\ nodes[x.dst].kind = "Gene"}}

\* (d)-[:LOCALIZES_TO]->(a:Anatomy)
match_locations(d) ==
  {[node |-> e.dst, type |-> e.type] :
     e \in {x \in E : /\ x.src = d
                     /\ x.type = LOCALIZES_TO
                     /\ nodes[x.dst].kind = "Anatomy"}}

\* the rows before RETURN: one per disease node and combination of matches
disease_rows(disease_id) ==
  UNION {{[d |-> d, c |-> c, g |-> g, a |-> a] :
             c \in Optional(match_drugs(d)),
             g \in Optional(match_genes(d)),
             a \in Optional(match_locations(d))} :
         d \in match_disease(disease_id)}

\* RETURN d.name, collect(DISTINCT {..}), ..: the rows grouped by d.name
disease_record(rows, name) ==
  LET mine == {r \in rows : nodes[r.d].name = name}
  IN [disease_name |-> name,
      drugs |-> {[id |-> Prop(r.c.node, "id"), name |-> Prop(r.c.node, "name"),
                  type |-> r.c.type] : r \in mine},
      genes |-> {[id |-> Prop(r.g.node, "id"), name |-> Prop(r.g.node, "name"),
                  relationship |-> r.g.type] : r \in mine},
      locations |-> {[id |-> Prop(r.a.node, "id"),
                      name |-> Prop(r.a.node, "name")] : r \in mine}]

\* the records of the query, in the order the disease nodes are scanned
disease_query(disease_id) ==
  LET rows == disease_rows(disease_id)
      ds == match_disease(disease_id)
      scan == SelectSeq([i \in DOMAIN nodes |-> i], LAMBDA i : i \in ds)
      names == Dedup([k \in DOMAIN scan |-> nodes[scan[k]].name])
  IN [k \in DOMAIN names |-> disease_record(rows, names[k])]

None == [tag |-> "None"]
TypeError == [tag |-> "TypeError"]

\* Result.single(): None without a record, else the first record (the
\* driver warns when there are more)
single(records) == IF records = << >> THEN None ELSE records[1]

\* a variant that keeps the placeholder for an OPTIONAL MATCH without a match
keep_all(xs) == xs

\* [x for x in xs if x['id'] is not None]
not_none(xs) == {x \in xs : x.id # NullStr}

----------------------------------------------------------------------------
(* Query 1 *)

\* a variant that names the document after the listing's record
info_named_by_listing(disease_id, disease_name) ==
  LET result == single(disease_query(disease_id))
  IN IF result = None THEN TypeError
     ELSE [_id |-> disease_id,
           name |-> disease_name,
           drugs |-> not_none(result.drugs),
           genes |-> not_none(result.genes),
           locations |-> not_none(result.locations)]

\* the dict _get_disease_info_from_neo4j builds from the single record;
\* subscripting None raises TypeError
_get_disease_info_from_neo4j(disease_id, disease_name) ==
  LET result == single(disease_query(disease_id))
  IN IF result = None THEN TypeError
     ELSE [_id |-> disease_id,
           name |-> result.disease_name,
           drugs |-> not_none(result.drugs),
           genes |-> not_none(result.genes),
           locations |-> not_none(result.locations)]

\* the else branch of query1_disease_info: the same query, and the same
\* dict built in place; subscripting None raises TypeError
direct_disease_info(disease_id) ==
  LET neo_result == single(disease_query(disease_id))
  IN IF neo_result = None THEN TypeError
     ELSE [_id |-> disease_id,
           name |-> neo_result.disease_name,
           drugs |-> not_none(neo_result.drugs),
           genes |-> not_none(neo_result.genes),
           locations |-> not_none(neo_result.locations)]

NoDocuments == [x \in {} |-> x]

\* a variant that computes the document from the graph on a miss
find_or_compute(collection, disease_id) ==
  IF disease_id \in DOMAIN collection THEN collection[disease_id]
  ELSE direct_disease_info(disease_id)

\* diseases_collection.find_one({'_id': disease_id})
find_one(collection, disease_id) ==
  IF disease_id \in DOMAIN collection THEN collection[disease_id] ELSE None

\* a variant that updates the fields of a stored document one group at a
\* time ($set of the lists only), and inserts when there is none
update_lists(collection, disease_id, doc) ==
  [x \in DOMAIN collection \cup {disease_id} |->
     IF x # disease_id THEN collection[x]
     ELSE IF x \in DOMAIN collection
       THEN [collection[x] EXCEPT !.drugs = doc.drugs]
       ELSE doc]

\* diseases_collection.replace_one({'_id': id}, doc, upsert=True)
replace_one(collection, disease_id, doc) ==
  [x \in DOMAIN collection \cup {disease_id} |->
     IF x = disease_id THEN doc ELSE collection[x]]

\* `result` of query1_disease_info before the ephemeral fields
query1_result(disease_id, use_cache) ==
  IF use_cache THEN find_one(cache, disease_id)
  ELSE direct_disease_info(disease_id)

data_source(use_cache) ==
  IF use_cache THEN "MongoDB (cached)" ELSE "Neo4j (direct)"

\* if result: result['query_time_ms'] = ..; result['data_source'] = source
with_ephemeral(result, elapsed, source) ==
  IF result \in {None, TypeError} THEN result
  ELSE [_id |-> result._id, name |-> result.name, drugs |-> result.drugs,
        genes |-> result.genes, locations |-> result.locations,
        query_time_ms |-> elapsed, data_source |-> source]

\* what query1_disease_info returns, or the exception it raises
query1_return(disease_id, use_cache, elapsed) ==
  with_ephemeral(query1_result(disease_id, use_cache), elapsed,
                 data_source(use_cache))

\* the base fields of a found result
Base(result) ==
  [_id |-> result._id, name |-> result.name, drugs |-> result.drugs,
   genes |-> result.genes, locations |-> result.locations]

----------------------------------------------------------------------------
(* Query 2 *)

Regulation == {UPREGULATES, DOWNREGULATES}

\* NOT (c)-[:TREATS|PALLIATES]->(d), on the bound nodes c and d
not_treating(c, d) ==
  ~ \E x \in E : x.src = c /\ x.dst = d /\ x.type \in {TREATS, PALLIATES}

\* (type(cr) = 'UPREGULATES' AND type(ar) = 'DOWNREGULATES') OR the converse
opposite(cr, ar) ==
  \/ (cr = UPREGULATES /\ ar = DOWNREGULATES)
  \/ (cr = DOWNREGULATES /\ ar = UPREGULATES)

\* the rows of the three MATCH clauses that pass the WHERE
matching_rows(disease_id) ==
  {r \in {[d |-> t[1].src, a |-> t[1].dst, c |-> t[2].src, g |-> t[2].dst,
           cr |-> t[2].type, ar |-> t[3].type, ar_src |-> t[3].src,
           ar_dst |-> t[3].dst] :
             t \in {x \in E : /\ x.src \in match_disease(disease_id)
                              /\ x.type = LOCALIZES_TO
                              /\ nodes[x.dst].kind = "Anatomy"}
                   \X {x \in E : /\ nodes[x.src].kind = "Compound"
                                 /\ x.type \in Regulation
                                 /\ nodes[x.dst].kind = "Gene"}
                   \X {x \in E : x.type \in Regulation}} :
     /\ r.ar_src = r.a
     /\ r.ar_dst = r.g
     /\ opposite(r.cr, r.ar)
     /\ not_treating(r.c, r.d)}

\* {gene: g.name, compound_effect: type(cr), anatomy: a.name,
\*  anatomy_effect: type(ar)}
mechanism(r) ==
  [gene |-> nodes[r.g].name, compound_effect |-> r.cr,
   anatomy |-> nodes[r.a].name, anatomy_effect |-> r.ar]

\* RETURN DISTINCT c.id, c.name, collect(DISTINCT {..}): the rows grouped
\* by (c.id, c.name)
treatment_records(disease_id) ==
  LET rows == matching_rows(disease_id)
  IN {[compound_id |-> nodes[c].id,
       compound_name |-> nodes[c].name,
       mechanisms |-> {mechanism(r) :
          r \in {x \in rows : /\ nodes[x.c].id = nodes[c].id
                              /\ nodes[x.c].name = nodes[c].name}}] :
        c \in {r.c : r \in rows}}

\* the names of the input files, in the order ORDER BY gives strings
SortedNames == <<"Cold", "DrugA", "Flu", "GeneA", "Influenza", "Lung">>

name_rank(name) == CHOOSE i \in DOMAIN SortedNames : SortedNames[i] = name

\* ORDER BY compound_name: every order of the records that ascends by name
\* (Cypher leaves the order of equal names open)
order_by_name(records) ==
  {t \in [1..Cardinality(records) -> records] :
     /\ \A x \in records : \E i \in DOMAIN t : t[i] = x
     /\ \A i, j \in DOMAIN t :
          i < j => name_rank(t[i].compound_name) <= name_rank(t[j].compound_name)}

----------------------------------------------------------------------------
(* The calls *)

Idle == [tag |-> "idle"]

NotCalled == <<"?">>

Init ==
  /\ nodes = << >>
  /\ edges = EmptyBag
  /\ cache = NoDocuments
  /\ pc = "idle"
  /\ pending = << >>
  /\ info = Idle
  /\ op = [name |-> "__init__"]
  /\ res = Idle
  /\ cacheAtStart = NoDocuments
  /\ computed = {}
  /\ fresh = FALSE
  /\ code = << >>
  /\ out = NotCalled

rebuildVars == <<cache, pc, pending, info, cacheAtStart, computed>>

\* load_nodes(nodes_file); _create_indexes changes no query's result
load_nodes(file) ==
  /\ pc = "idle"
  /\ Len(nodes) + Len(file) <= MaxNodes
  /\ nodes' = create_nodes(nodes, file)
  /\ op' = [name |-> "load_nodes", file |-> file]
  /\ res' = [k \in DOMAIN nodes_by_kind(file) |->
               [kind |-> nodes_by_kind(file)[k].kind,
                created |-> Len(nodes_by_kind(file)[k].nodes)]]
  /\ fresh' = FALSE
  /\ UNCHANGED <<edges, rebuildVars, canonVars>>

\* load_edges(edges_file)
load_edges(file) ==
  LET groups == edges_by_type(file)
      after == edges (+) create_edges(nodes, groups)
  IN /\ pc = "idle"
     /\ BagCardinality(after) <= MaxEdges
     /\ edges' = after
     /\ op' = [name |-> "load_edges", file |-> file]
     /\ res' = [k \in DOMAIN groups |-> group_report(nodes, groups[k])]
     /\ fresh' = FALSE
     /\ UNCHANGED <<nodes, rebuildVars, canonVars>>

\* build_mongo_cache, up to the listing MATCH (d:Disease) RETURN d.id, d.name
build_mongo_cache_start ==
  /\ pc = "idle"
  /\ pending' = SelectSeq([i \in DOMAIN nodes |->
                             [id |-> nodes[i].id, name |-> nodes[i].name,
                              kind |-> nodes[i].kind]],
                          LAMBDA r : r.kind = "Disease")
  /\ pc' = "fetch"
  /\ cacheAtStart' = cache
  /\ computed' = {}
  /\ fresh' = TRUE
  /\ op' = [name |-> "build_mongo_cache"]
  /\ res' = [tag |-> "running"]
  /\ UNCHANGED <<nodes, edges, cache, info, canonVars>>

\* build_mongo_cache: _get_disease_info_from_neo4j for the next record
build_mongo_cache_fetch ==
  /\ pc = "fetch"
  /\ pending # << >>
  /\ info' = _get_disease_info_from_neo4j(Head(pending).id, Head(pending).name)
  /\ computed' = computed \cup {info'}
  /\ pc' = "store"
  /\ UNCHANGED <<nodes, edges, cache, pending, cacheAtStart, fresh, op, res,
                 canonVars>>

\* build_mongo_cache: replace_one for the document computed
build_mongo_cache_store ==
  /\ pc = "store"
  /\ cache' = replace_one(cache, info._id, info)
  /\ pending' = Tail(pending)
  /\ info' = Idle
  /\ pc' = "fetch"
  /\ UNCHANGED <<nodes, edges, cacheAtStart, computed, fresh, op, res,
                 canonVars>>

\* build_mongo_cache: the listing is exhausted; count_documents is printed
build_mongo_cache_end ==
  /\ pc = "fetch"
  /\ pending = << >>
  /\ pc' = "idle"
  /\ cacheAtStart' = NoDocuments
  /\ computed' = {}
  /\ op' = [name |-> "build_mongo_cache"]
  /\ res' = [tag |-> "cached", count |-> Cardinality(DOMAIN cache)]
  /\ UNCHANGED <<nodes, edges, cache, pending, info, fresh, canonVars>>

\* query1_disease_info(disease_id, use_cache)
query1_disease_info(disease_id, use_cache) ==
  /\ \E elapsed \in 0..MaxElapsed :
       res' = query1_return(disease_id, use_cache, elapsed)
  /\ op' = [name |-> "query1_disease_info", disease_id |-> disease_id,
            use_cache |-> use_cache]
  /\ UNCHANGED <<nodes, edges, rebuildVars, fresh, canonVars>>

\* query2_find_treatments(disease_id)
query2_find_treatments(disease_id) ==
  /\ \E elapsed \in 0..MaxElapsed :
       \E treatments \in order_by_name(treatment_records(disease_id)) :
         res' = [disease_id |-> disease_id,
                 potential_treatments_count |-> Len(treatments),
                 treatments |-> treatments,
                 query_time_ms |-> elapsed]
  /\ op' = [name |-> "query2_find_treatments", disease_id |-> disease_id]
  /\ UNCHANGED <<nodes, edges, rebuildVars, fresh, canonVars>>

Next ==
  \/ \E file \in NodeFiles : load_nodes(file)
  \/ \E file \in EdgeFiles : load_edges(file)
  \/ build_mongo_cache_start
  \/ build_mongo_cache_fetch
  \/ build_mongo_cache_store
  \/ build_mongo_cache_end
  \/ \E disease_id \in QueryIds, use_cache \in BOOLEAN :
       query1_disease_info(disease_id, use_cache)
  \/ \E disease_id \in QueryIds : query2_find_treatments(disease_id)

Spec == Init /\ [][Next]_vars

----------------------------------------------------------------------------
(* _parse_metaedge alone: the argument is drawn from the codes of the
   table and some codes outside it, with up to MaxMarkers direction markers
   added anywhere *)

Insert(s, i, c) == SubSeq(s, 1, i) \o <<c>> \o SubSeq(s, i + 1, Len(s))

BaseCodes ==
  DOMAIN mapping \cup {<<"C","r","C">>, <<"D","r","D">>, <<"G","e","D">>}

RECURSIVE Marked(_)
Marked(n) ==
  IF n = 0 THEN BaseCodes
  ELSE Marked(n - 1) \cup
       UNION {{Insert(s, i, c) : i \in 0..Len(s), c \in {">", "<"}} :
                s \in Marked(n - 1)}

Codes == Marked(MaxMarkers)

InitCanon ==
  /\ nodes = << >>
  /\ edges = EmptyBag
  /\ cache = NoDocuments
  /\ pc = "idle"
  /\ pending = << >>
  /\ info = Idle
  /\ op = [name |-> "__init__"]
  /\ res = Idle
  /\ cacheAtStart = NoDocuments
  /\ computed = {}
  /\ fresh = FALSE
  /\ code \in Codes
  /\ out = NotCalled

call_parse_metaedge ==
  /\ out = NotCalled
  /\ out' = _parse_metaedge(code)
  /\ UNCHANGED <<code, graphVars>>

NextCanon == call_parse_metaedge

SpecCanon == InitCanon /\ [][NextCanon]_vars

----------------------------------------------------------------------------
(* Claims *)

\* a code without its direction markers, as the claims speak of it
StripMarkers(s) == SelectSeq(s, LAMBDA c : c \notin {">", "<"})

\* the table as C1 states it, with GRG among the codes of RESEMBLES
TableAsClaimed ==
  [k \in DOMAIN mapping |->
     CASE k = <<"G","i","G">> -> INTERACTS
       [] k = <<"G","r","G">> -> REGULATES
       [] k = <<"G","c","G">> -> COVARIES
       [] k = <<"C","t","D">> -> TREATS
       [] k = <<"C","p","D">> -> PALLIATES
       [] k \in {<<"C","u","G">>, <<"D","u","G">>, <<"A","u","G">>} -> UPREGULATES
       [] k \in {<<"C","d","G">>, <<"D","d","G">>, <<"A","d","G">>} -> DOWNREGULATES
       [] k = <<"C","b","G">> -> BINDS
       [] k = <<"D","a","G">> -> ASSOCIATES
       [] k = <<"D","l","A">> -> LOCALIZES_TO
       [] k = <<"A","e","G">> -> EXPRESSES
       [] k \in {<<"C","R","C">>, <<"D","R","D">>, <<"G","R","G">>} -> RESEMBLES]

\* the same table with GRG among the codes of REGULATES
TableAmended ==
  [k \in DOMAIN mapping |->
     IF k = <<"G","R","G">> THEN REGULATES ELSE TableAsClaimed[k]]

\* C1 as stated: _parse_metaedge of a code whose stripped form is one of the
\* eighteen codes of the table returns the type C1 lists for it, GRG -> RESEMBLES
\* included.
C1_AsClaimed ==
  (out # NotCalled /\ StripMarkers(code) \in DOMAIN TableAsClaimed)
    => out = TableAsClaimed[StripMarkers(code)]

\* C1 amended: _parse_metaedge strips '>' and '<' and, for a stripped code in
\* the table, returns the type C1 lists for it, except that GRG gives
\* REGULATES (CRC and DRD give RESEMBLES).
C1_Amended ==
  (out # NotCalled /\ StripMarkers(code) \in DOMAIN TableAmended)
    => out = TableAmended[StripMarkers(code)]

\* C1's case: a code with a direction marker whose stripped form is GRG has
\* been parsed
C1_Witness ==
  /\ out = REGULATES
  /\ code # StripMarkers(code)
  /\ StripMarkers(code) = <<"G","R","G">>

\* the call `res` is the result of
IsQuery1 == op.name = "query1_disease_info"
IsQuery2 == op.name = "query2_find_treatments"
IsLoadEdges == op.name = "load_edges"

Found(r) == r \notin {None, TypeError}

\* C2 as stated: in what load_edges did for a group, a pair created a
\* relationship only if both its ids resolve and none otherwise, the group
\* created at most as many relationships as it submitted pairs, and fewer
\* exactly when some pair has a missing endpoint.
C2_AsClaimed ==
  IsLoadEdges =>
    \A k \in DOMAIN res :
      LET g == res[k]
          missing(p) == \/ match_id(nodes, p.source) = {}
                        \/ match_id(nodes, p.target) = {}
      IN /\ \A i \in DOMAIN g.pairs :
              g.pairs[i].created = 0 <=> missing(g.pairs[i])
         /\ g.created <= g.submitted
         /\ g.created < g.submitted <=>
              \E i \in DOMAIN g.pairs : missing(g.pairs[i])

\* C3 as stated: query1_disease_info with an id no Disease node holds
\* returns None (not found), and raises nothing, with and without the cache.
C3_AsClaimed ==
  (IsQuery1 /\ match_disease(op.disease_id) = {}) => res = None

\* C6 as stated: no two nodes of the store hold the same id.
C6_AsClaimed ==
  \A i, j \in DOMAIN nodes : nodes[i].id = nodes[j].id => i = j

\* C4 as stated: after any loads and rebuilds, when no rebuild is running,
\* the cached read and the direct read of every disease id a completed
\* rebuild has stored agree on the base fields.
C4_AsClaimed ==
  pc = "idle" =>
    \A id \in DOMAIN cache : \A e1, e2 \in 0..MaxElapsed :
      LET cached == query1_return(id, TRUE, e1)
          direct == query1_return(id, FALSE, e2)
      IN Found(cached) /\ Found(direct) /\ Base(cached) = Base(direct)

\* C4 amended: when a rebuild has completed and no load_nodes or load_edges
\* call has run since it started, every disease id of the graph has a cache
\* entry, and its cached read and its direct read agree on the base fields
\* (and differ in data_source).
C4_Amended ==
  (pc = "idle" /\ fresh) =>
    \A d \in DOMAIN nodes : nodes[d].kind = "Disease" =>
      \A e1, e2 \in 0..MaxElapsed :
        LET cached == query1_return(nodes[d].id, TRUE, e1)
            direct == query1_return(nodes[d].id, FALSE, e2)
        IN /\ Found(cached) /\ Found(direct)
           /\ Base(cached) = Base(direct)
           /\ cached.data_source # direct.data_source

\* C4's case: a rebuild has completed over a graph in which D1 has a drug,
\* a gene and a location, and nothing was loaded since
C4_Witness ==
  /\ pc = "idle" /\ fresh
  /\ "D1" \in DOMAIN cache
  /\ cache["D1"].drugs # {} /\ cache["D1"].genes # {}
  /\ cache["D1"].locations # {}
  /\ Cardinality(match_disease("D1")) > 1

\* a compound node of that id has a TREATS or PALLIATES relationship to a
\* disease node of that id
treats(compound_id, disease_id) ==
  \E x \in E : /\ nodes[x.src].kind = "Compound"
               /\ nodes[x.src].id = compound_id
               /\ nodes[x.dst].kind = "Disease"
               /\ nodes[x.dst].id = disease_id
               /\ x.type \in {TREATS, PALLIATES}

\* C5 as stated: no compound with a TREATS or PALLIATES relationship to the
\* disease is among the treatments query2_find_treatments returns.
C5_AsClaimed ==
  IsQuery2 =>
    \A i \in DOMAIN res.treatments :
      ~ treats(res.treatments[i].compound_id, op.disease_id)

\* the relationships of the three branches of Query 1, over every Disease
\* node holding the id
drugs_of(id) == UNION {match_drugs(d) : d \in match_disease(id)}
genes_of(id) == UNION {match_genes(d) : d \in match_disease(id)}
locations_of(id) == UNION {match_locations(d) : d \in match_disease(id)}

\* a document whose three lists are there, hold no placeholder, and are
\* empty where the disease id has no match
Aggregated(doc, id) ==
  /\ {"drugs", "genes", "locations"} \subseteq DOMAIN doc
  /\ \A x \in doc.drugs \cup doc.genes \cup doc.locations : x.id # NullStr
  /\ drugs_of(id) = {} => doc.drugs = {}
  /\ genes_of(id) = {} => doc.genes = {}
  /\ locations_of(id) = {} => doc.locations = {}

\* C7: the direct read of a disease id that exists, and the document a
\* rebuild computes for it, is a found result whose drugs, genes and
\* locations are lists without a placeholder entry, each of them empty when
\* the disease has no relationship of that branch.
C7_EmptyLists ==
  /\ (IsQuery1 /\ ~ op.use_cache /\ match_disease(op.disease_id) # {})
       => (Found(res) /\ Aggregated(res, op.disease_id))
  /\ pc = "store" => (Found(info) /\ Aggregated(info, info._id))

\* C7's case: a direct read of a disease that has drugs and genes and no
\* location has returned
C7_Witness ==
  /\ IsQuery1 /\ ~ op.use_cache
  /\ match_disease(op.disease_id) # {}
  /\ drugs_of(op.disease_id) # {}
  /\ locations_of(op.disease_id) = {}
  /\ res.locations = {} /\ res.drugs # {}

\* C8: a call of query1_disease_info with use_cache = True for an id the
\* cache holds no document of returns None, also when a Disease node holds
\* the id, and leaves the cache as it was.
C8_MissIsNotFound ==
  [][\A id \in QueryIds :
       (query1_disease_info(id, TRUE) /\ id \notin DOMAIN cache)
         => (res' = None /\ cache' = cache)]_vars

\* C8's case: a cached read of an id that a Disease node holds and the
\* cache does not has returned None (with no rebuild running, the cache
\* held no document of the id when the read ran: documents are not removed)
C8_Witness ==
  /\ IsQuery1 /\ op.use_cache
  /\ pc = "idle"
  /\ op.disease_id \notin DOMAIN cache
  /\ match_disease(op.disease_id) # {}
  /\ res = None

\* the mechanisms of a compound as nodes tell them apart: gene node,
\* compound direction, anatomy node, anatomy direction
node_mechanisms(disease_id, compound_id, compound_name) ==
  {<<r.g, r.cr, r.a, r.ar>> :
     r \in {x \in matching_rows(disease_id) :
              /\ nodes[x.c].id = compound_id
              /\ nodes[x.c].name = compound_name}}

\* C9 as stated: each treatment of query2_find_treatments lists one
\* mechanism for each (gene node, compound direction, anatomy node, anatomy
\* direction) that supports it, two genes or anatomies of one name included.
C9_AsClaimed ==
  IsQuery2 =>
    \A i \in DOMAIN res.treatments :
      LET t == res.treatments[i]
      IN Cardinality(t.mechanisms) =
           Cardinality(node_mechanisms(op.disease_id, t.compound_id,
                                       t.compound_name))

\* C10: while a rebuild runs, every document of the cache is, whole, the
\* document the cache held when the rebuild started or a document the
\* rebuild computed, and a cached read made meanwhile has returned None or
\* such a document with the two ephemeral fields added.
C10_WholeEntries ==
  pc # "idle" =>
    LET whole(id, doc) ==
          \/ doc \in computed
          \/ (id \in DOMAIN cacheAtStart /\ doc = cacheAtStart[id])
    IN /\ \A id \in DOMAIN cache : whole(id, cache[id])
       /\ (IsQuery1 /\ op.use_cache) =>
            \/ res = None
            \/ /\ Found(res)
               /\ whole(op.disease_id, Base(res))
               /\ res._id = op.disease_id

\* C10's case: during a rebuild, a cached read has returned the document
\* the rebuild computed, which differs from the one the cache held before,
\* while the document of another disease is still the one held before
C10_Witness ==
  /\ pc # "idle"
  /\ IsQuery1 /\ op.use_cache /\ Found(res)
  /\ Base(res) \in computed
  /\ op.disease_id \in DOMAIN cacheAtStart
  /\ Base(res) # cacheAtStart[op.disease_id]
  /\ \E id \in DOMAIN cache : cache[id] \notin computed

====
